---- MODULE Spec2Model ----
(***************************************************************************)
(* Circle-partition widget (src/unnamed/part_000): the state record        *)
(* {N, mode, tapCount}, the DOM the handlers read and write (slider,       *)
(* label, rendered slices group, mode buttons, tap pad), the pending       *)
(* click-pulse timers and the lazily created audio context.                *)
(*                                                                         *)
(* Numbers that may be fractional (the slider's value, the argument of     *)
(* updateN) are counted in halves: the integer x stands for the number     *)
(* x / 2, so that 13 is 6.5.                                               *)
(*                                                                         *)
(* Angles are counted in units of 1/(4n) of a full turn, n the number of   *)
(* slices of the render they belong to: a slice spans 4 units, pi/2 is n   *)
(* units and pi is 2n units. The comparisons of createSectorPath give the  *)
(* same result in IEEE doubles as in these exact units for every n in      *)
(* 1 .. 24 (for n = 2 the computed difference is exactly Math.PI). The     *)
(* two ends of an arc are points of the circle, named by their angle       *)
(* reduced to one turn; their decimal coordinates are not modelled.        *)
(***************************************************************************)
EXTENDS Integers, Sequences, FiniteSets

VARIABLES
    N,               \* state.N
    mode,            \* state.mode
    tapCount,        \* state.tapCount
    audioContext,    \* module-level audioContext: 0 is null, 1 the AudioContext constructed on first use
    ctxCreated,      \* how many times the AudioContext constructor has returned an object
    sectors,         \* the <path class="slice"> children of #slices-group, in order: data-index
                     \* and the path data of createSectorPath
    hasClickHandler, \* the #slices-group in the document carries the handleCircleClick listener
    pulse,           \* the classList of the #slices-group in the document holds 'click-pulse'
    timers,          \* pending setTimeout callbacks, oldest first: TRUE when the group the
                     \* callback captured is still the one in the document
    labelN,          \* n of the text "N = n" of #n-label
    inputValue,      \* value of the #n-input slider (fixed-point)
    activeButtons,   \* mode buttons whose classList holds 'active'
    svgClasses,      \* the mode classes of #circle-svg
    tapPadDisplay,   \* style.display of #tap-pad-container
    tapCountText     \* n of the text "Total taps: n" of #tap-count

vars == <<N, mode, tapCount, audioContext, ctxCreated, sectors,
          hasClickHandler, pulse, timers, labelN, inputValue, activeButtons,
          svgClasses, tapPadDisplay, tapCountText>>

----------------------------------------------------------------------------
(* Bounds of the model *)

\* slider events carry the values from MinN - SliderMargin to MaxN + SliderMargin
SliderMargin == 1
\* tap-pad activations are followed up to this tapCount
MaxTaps == 25
\* at most this many click-pulse timers are pending at once
MaxTimers == 1
\* in PulseSpec, at most this many click-pulse timers are pending at once
MaxPending == 3

(* Program constants *)
MinN == 1
MaxN == 24
DefaultN == 6

Modes == {"cut", "merge", "tap"}
Keys == {"ArrowUp", "ArrowRight", "ArrowDown", "ArrowLeft", "Enter"}
TagNames == {"INPUT", "BODY"}
ClassNames == {"slice", "slices-group"}
\* what the try block of playTapSound can meet: no AudioContext constructor,
\* a failure in a later Web Audio call, or none
AudioOutcomes == {"ok", "noApi", "nodeFail"}

\* the values a slider event can carry, in halves
SliderValues == 2 * (MinN - SliderMargin) .. 2 * (MaxN + SliderMargin)

----------------------------------------------------------------------------
(* Arithmetic *)

Max(a, b) == IF a >= b THEN a ELSE b
Min(a, b) == IF a <= b THEN a ELSE b

\* the integer i as a number of halves
Num(i) == 2 * i
\* Math.floor of x halves, an integer
Floor(x) == x \div 2
\* Math.round of x halves: floor(x / 2 + 1/2)
Round(x) == (x + 1) \div 2

----------------------------------------------------------------------------
(* The program state as one record, so that a handler's calls compose *)

St == [N |-> N, mode |-> mode, tapCount |-> tapCount,
       audioContext |-> audioContext, ctxCreated |-> ctxCreated,
       sectors |-> sectors,
       hasClickHandler |-> hasClickHandler, pulse |-> pulse,
       timers |-> timers, labelN |-> labelN, inputValue |-> inputValue,
       activeButtons |-> activeButtons, svgClasses |-> svgClasses,
       tapPadDisplay |-> tapPadDisplay, tapCountText |-> tapCountText]

Commit(s) ==
    \E r \in {s} :
        /\ N' = r.N
        /\ mode' = r.mode
        /\ tapCount' = r.tapCount
        /\ audioContext' = r.audioContext
        /\ ctxCreated' = r.ctxCreated
        /\ sectors' = r.sectors
        /\ hasClickHandler' = r.hasClickHandler
        /\ pulse' = r.pulse
        /\ timers' = r.timers
        /\ labelN' = r.labelN
        /\ inputValue' = r.inputValue
        /\ activeButtons' = r.activeButtons
        /\ svgClasses' = r.svgClasses
        /\ tapPadDisplay' = r.tapPadDisplay
        /\ tapCountText' = r.tapCountText

----------------------------------------------------------------------------
(* Rendering *)

\* polarToCartesian(angle, radius) on the circle of the slices: Math.cos and
\* Math.sin have the period 2 pi, so the point is named by the angle reduced
\* to one turn, and two angles give one point exactly when they differ by
\* whole turns
PolarToCartesian(angle, pi) == angle % (2 * pi)

\* fault of createSectorPath: the large arc chosen from pi on (>= for >)
CreateSectorPath_FromPi(startAngle, endAngle, pi) ==
    [start |-> PolarToCartesian(startAngle, pi),
     largeArc |-> IF endAngle - startAngle >= pi THEN 1 ELSE 0,
     sweep |-> 1,
     end |-> PolarToCartesian(endAngle, pi)]

\* createSectorPath(centerX, centerY, radius, startAngle, endAngle): the
\* path "M c L start A r r 0 largeArc sweep end Z"; pi is Math.PI in the
\* units of the angles
CreateSectorPath(startAngle, endAngle, pi) ==
    [start |-> PolarToCartesian(startAngle, pi),
     largeArc |-> IF endAngle - startAngle > pi THEN 1 ELSE 0,
     sweep |-> 1,
     end |-> PolarToCartesian(endAngle, pi)]

\* whether a reader of the path data d finds the end point of the arc equal
\* to its start point. Points that differ on the circle are at least a 24th
\* of a turn apart and are read as different. Points that are one point of
\* the circle are written from two different angles: whether their decimal
\* texts are read as equal depends on the rounding of Math.cos and Math.sin
\* and on the precision the reader parses numbers with
ReadsEndpointsEqual(d) == IF d.start = d.end THEN BOOLEAN ELSE {FALSE}

\* the loop of renderCirclePartition: one path per i in 0 .. n-1, with
\* data-index i, from i * anglePerSlice - pi/2 to (i + 1) * anglePerSlice - pi/2
SlicePathsOf(n) ==
    [k \in 1 .. n |->
        [index |-> k - 1,
         d |-> CreateSectorPath(4 * (k - 1) - n, 4 * k - n, 2 * n)]]

\* SlicePathsOf, computed once for the slice counts a render can be given
SlicePathsTable == [n \in 0 .. MaxN + MaxTaps |-> SlicePathsOf(n)]

\* the paths renderCirclePartition appends to the new group
SlicePaths(n) ==
    IF n \in DOMAIN SlicePathsTable THEN SlicePathsTable[n] ELSE SlicePathsOf(n)

\* fault of renderCirclePartition: the old content is not cleared, the new
\* slices are added after the old ones
RenderCirclePartition_Appends(s, n) ==
    [s EXCEPT !.sectors = s.sectors \o SlicePaths(n),
              !.hasClickHandler = FALSE,
              !.pulse = FALSE,
              !.timers = [i \in 1 .. Len(s.timers) |-> FALSE]]

\* renderCirclePartition(svgEl, n): innerHTML = '' detaches the old group, so
\* every pending timer now holds a detached element; the new group has n
\* slices, the class 'slices-group' alone and no listener
RenderCirclePartition(s, n) ==
    [s EXCEPT !.sectors = SlicePaths(n),
              !.hasClickHandler = FALSE,
              !.pulse = FALSE,
              !.timers = [i \in 1 .. Len(s.timers) |-> FALSE]]

\* attachCircleClickHandler(svgEl)
AttachCircleClickHandler(s) == [s EXCEPT !.hasClickHandler = TRUE]

----------------------------------------------------------------------------
(* updateN *)

\* faults of the clamp: the upper bound dropped, the lower bound dropped,
\* rounding to nearest in place of Math.floor
ClampN_NoUpperBound(x) == Max(MinN, Floor(x))
ClampN_NoLowerBound(x) == Min(MaxN, Floor(x))
ClampN_Rounds(x) == Max(MinN, Min(MaxN, Round(x)))

\* line 107: Math.max(1, Math.min(24, Math.floor(newN)))
ClampN(x) == Max(MinN, Min(MaxN, Floor(x)))

\* fault of updateN: the test state.N !== newN dropped
UpdateN_AlwaysRenders(s, newN) ==
    LET s1 == [s EXCEPT !.N = Max(MinN, Min(MaxN, Floor(newN)))]
        s2 == AttachCircleClickHandler(RenderCirclePartition(s1, s1.N))
    IN  [s2 EXCEPT !.labelN = s1.N, !.inputValue = Num(s1.N)]

\* fault of updateN: a change of N restarts the tap count
UpdateN_ResetsTaps(s, newN) ==
    LET n == Max(MinN, Min(MaxN, Floor(newN)))
    IN  IF s.N # n
        THEN LET s1 == [s EXCEPT !.N = n, !.tapCount = 0]
                 s2 == AttachCircleClickHandler(RenderCirclePartition(s1, s1.N))
             IN  [s2 EXCEPT !.labelN = s1.N, !.inputValue = Num(s1.N)]
        ELSE s

\* updateN(newN), newN fixed-point
UpdateN(s, newN) ==
    LET n == ClampN(newN)
    IN  IF s.N # n
        THEN LET s1 == [s EXCEPT !.N = n]
                 s2 == AttachCircleClickHandler(RenderCirclePartition(s1, s1.N))
             IN  [s2 EXCEPT !.labelN = s1.N, !.inputValue = Num(s1.N)]
        ELSE s

----------------------------------------------------------------------------
(* updateMode and the mode-dependent UI *)

UpdateTapCountDisplay(s) == [s EXCEPT !.tapCountText = s.tapCount]

\* updateModeButtons: each of the three buttons gets 'active' iff it is the
\* button of state.mode
UpdateModeButtons(s) == [s EXCEPT !.activeButtons = {b \in Modes : s.mode = b}]

\* fault of updateCursor: the class of the new mode is added, those of the
\* other modes are not removed
UpdateCursor_AddsOnly(s) ==
    IF s.mode = "cut"
    THEN [s EXCEPT !.svgClasses = s.svgClasses \cup {"cut-mode"}]
    ELSE IF s.mode = "merge"
    THEN [s EXCEPT !.svgClasses = s.svgClasses \cup {"merge-mode"}]
    ELSE [s EXCEPT !.svgClasses = s.svgClasses \cup {"tap-mode"}]

\* updateCursor
UpdateCursor(s) ==
    IF s.mode = "cut"
    THEN [s EXCEPT !.svgClasses = (s.svgClasses \ {"merge-mode", "tap-mode"}) \cup {"cut-mode"}]
    ELSE IF s.mode = "merge"
    THEN [s EXCEPT !.svgClasses = (s.svgClasses \ {"cut-mode", "tap-mode"}) \cup {"merge-mode"}]
    ELSE [s EXCEPT !.svgClasses = (s.svgClasses \ {"cut-mode", "merge-mode"}) \cup {"tap-mode"}]

UpdateTapPadVisibility(s) ==
    IF s.mode = "tap"
    THEN UpdateTapCountDisplay([s EXCEPT !.tapPadDisplay = "block"])
    ELSE [s EXCEPT !.tapPadDisplay = "none"]

\* fault of updateMode: the tap count restarts with every mode change
UpdateMode_ResetsTaps(s, newMode) ==
    IF s.mode # newMode /\ (newMode = "cut" \/ newMode = "merge" \/ newMode = "tap")
    THEN UpdateTapPadVisibility(UpdateCursor(UpdateModeButtons(
             [s EXCEPT !.mode = newMode, !.tapCount = 0])))
    ELSE s

\* updateMode(newMode)
UpdateMode(s, newMode) ==
    IF s.mode # newMode /\ (newMode = "cut" \/ newMode = "merge" \/ newMode = "tap")
    THEN UpdateTapPadVisibility(UpdateCursor(UpdateModeButtons([s EXCEPT !.mode = newMode])))
    ELSE s

----------------------------------------------------------------------------
(* Sector clicks and the click-pulse animation *)

\* fault of animateCircleClick: the class is added, no reset is scheduled
AnimateCircleClick_NoTimer(s) == [s EXCEPT !.pulse = TRUE]

\* animateCircleClick: the group in the document gets 'click-pulse' and a
\* timer that captured that element is queued
AnimateCircleClick(s) ==
    [s EXCEPT !.pulse = TRUE,
              !.timers = Append(s.timers, TRUE)]

\* faults of handleCircleClick: the two modes exchanged; the pulse started
\* only when the click changed N
HandleCircleClick_Swapped(s, cls) ==
    IF cls = "slice" /\ s.mode # "tap"
    THEN LET s1 == IF s.mode = "merge" THEN UpdateN(s, Num(Min(MaxN, s.N + 1)))
                   ELSE IF s.mode = "cut" THEN UpdateN(s, Num(Max(MinN, s.N - 1)))
                   ELSE s
         IN  AnimateCircleClick(s1)
    ELSE s
HandleCircleClick_PulseOnChange(s, cls) ==
    IF cls = "slice" /\ s.mode # "tap"
    THEN LET s1 == IF s.mode = "cut" THEN UpdateN(s, Num(Min(MaxN, s.N + 1)))
                   ELSE IF s.mode = "merge" THEN UpdateN(s, Num(Max(MinN, s.N - 1)))
                   ELSE s
         IN  IF s1.N # s.N THEN AnimateCircleClick(s1) ELSE s1
    ELSE s

\* fault of handleCircleClick: the test state.mode !== 'tap' dropped
HandleCircleClick_NoTapGuard(s, cls) ==
    IF cls = "slice"
    THEN LET s1 == IF s.mode = "cut" THEN UpdateN(s, Num(Min(MaxN, s.N + 1)))
                   ELSE IF s.mode = "merge" THEN UpdateN(s, Num(Max(MinN, s.N - 1)))
                   ELSE s
         IN  AnimateCircleClick(s1)
    ELSE s

\* handleCircleClick(e), cls the class of e.target
HandleCircleClick(s, cls) ==
    IF cls = "slice" /\ s.mode # "tap"
    THEN LET s1 == IF s.mode = "cut" THEN UpdateN(s, Num(Min(MaxN, s.N + 1)))
                   ELSE IF s.mode = "merge" THEN UpdateN(s, Num(Max(MinN, s.N - 1)))
                   ELSE s
         IN  AnimateCircleClick(s1)
    ELSE s

\* the callback of the setTimeout of animateCircleClick: 'click-pulse' is
\* removed from the captured group, which shows only if it is still attached
PulseTimeout(s, attached) ==
    [s EXCEPT !.timers = Tail(s.timers),
              !.pulse = IF attached THEN FALSE ELSE s.pulse]

----------------------------------------------------------------------------
(* Tap mode *)

\* fault of playTapSound: a context is constructed at every call
PlayTapSound_AlwaysCreates(s, outcome) ==
    IF outcome = "noApi"
    THEN s
    ELSE [s EXCEPT !.audioContext = 1, !.ctxCreated = s.ctxCreated + 1]

\* playTapSound: the context is constructed when there is none; every
\* exception is caught
PlayTapSound(s, outcome) ==
    IF s.audioContext = 0
    THEN IF outcome = "noApi"
         THEN s
         ELSE [s EXCEPT !.audioContext = 1, !.ctxCreated = s.ctxCreated + 1]
    ELSE s

\* fault of recordTap: N taken from the count before the increment
RecordTap_StaleCount(s, outcome) ==
    IF s.mode = "tap"
    THEN LET s1 == [s EXCEPT !.tapCount = s.tapCount + 1]
             s2 == PlayTapSound(s1, outcome)
             newN == Max(MinN, Min(MaxN, s.tapCount))
         IN  UpdateTapCountDisplay(UpdateN(s2, Num(newN)))
    ELSE s

\* fault of recordTap: an exception of the audio code leaves playTapSound and
\* ends the handler before updateN
RecordTap_AudioThrows(s, outcome) ==
    IF s.mode = "tap"
    THEN LET s1 == [s EXCEPT !.tapCount = s.tapCount + 1]
             s2 == PlayTapSound(s1, outcome)
             newN == Max(MinN, Min(MaxN, s2.tapCount))
         IN  IF outcome = "ok" THEN UpdateTapCountDisplay(UpdateN(s2, Num(newN))) ELSE s2
    ELSE s

\* fault of recordTap: the test state.mode === 'tap' dropped
RecordTap_NoModeGuard(s, outcome) ==
    LET s1 == [s EXCEPT !.tapCount = s.tapCount + 1]
        s2 == PlayTapSound(s1, outcome)
        newN == Max(MinN, Min(MaxN, s2.tapCount))
    IN  UpdateTapCountDisplay(UpdateN(s2, Num(newN)))

\* recordTap()
RecordTap(s, outcome) ==
    IF s.mode = "tap"
    THEN LET s1 == [s EXCEPT !.tapCount = s.tapCount + 1]
             s2 == PlayTapSound(s1, outcome)
             newN == Max(MinN, Min(MaxN, s2.tapCount))
         IN  UpdateTapCountDisplay(UpdateN(s2, Num(newN)))
    ELSE s

\* fault of resetTaps: the commented-out updateN(1) of line 329 active
ResetTaps_ResetsN(s) == UpdateN(UpdateTapCountDisplay([s EXCEPT !.tapCount = 0]), Num(MinN))

\* resetTaps()
ResetTaps(s) == UpdateTapCountDisplay([s EXCEPT !.tapCount = 0])

----------------------------------------------------------------------------
(* mountApp: the markup, the initial render and the event wiring *)

Init ==
    /\ N = DefaultN
    /\ mode = "cut"
    /\ tapCount = 0
    /\ audioContext = 0
    /\ ctxCreated = 0
    /\ sectors = SlicePaths(DefaultN)
    /\ hasClickHandler = TRUE
    /\ pulse = FALSE
    /\ timers = << >>
    /\ labelN = DefaultN
    /\ inputValue = Num(DefaultN)
    /\ activeButtons = {"cut"}
    /\ svgClasses = {"cut-mode"}
    /\ tapPadDisplay = "none"
    /\ tapCountText = 0

\* the listener of 'input' on #n-input: the slider holds v when it runs
OnSliderInput(v) == UpdateN([St EXCEPT !.inputValue = v], v)

\* the listener of 'click' on #decrease-btn
OnDecreaseClick == UpdateN(St, Num(N - 1))

\* the listener of 'click' on #increase-btn
OnIncreaseClick == UpdateN(St, Num(N + 1))

\* the listeners of 'click' on #cut-btn, #merge-btn and #tap-btn
OnModeClick(m) == UpdateMode(St, m)

\* the listeners of 'click' and 'touchend' on #tap-pad
OnTapPad(outcome) == RecordTap(St, outcome)

\* the listener of 'click' on #reset-taps-btn
OnResetTapsClick == ResetTaps(St)

\* fault of the keydown listener: no test of the target's tagName
OnKeyDown_NoInputGuard(key, tag) ==
    IF key = "ArrowUp" \/ key = "ArrowRight"
    THEN UpdateN(St, Num(N + 1))
    ELSE IF key = "ArrowDown" \/ key = "ArrowLeft"
    THEN UpdateN(St, Num(N - 1))
    ELSE St

\* the listener of 'keydown' on document, tag the tagName of e.target
OnKeyDown(key, tag) ==
    IF tag = "INPUT"
    THEN St
    ELSE IF key = "ArrowUp" \/ key = "ArrowRight"
    THEN UpdateN(St, Num(N + 1))
    ELSE IF key = "ArrowDown" \/ key = "ArrowLeft"
    THEN UpdateN(St, Num(N - 1))
    ELSE St

\* 'click' dispatched to the #slices-group in the document, cls the class of its target
OnCircleClick(cls) == IF hasClickHandler THEN HandleCircleClick(St, cls) ELSE St

\* the oldest pending timer expires (all timers have the same delay)
OnTimeout == PulseTimeout(St, Head(timers))

----------------------------------------------------------------------------
(* The events *)

SliderInput(v) == Commit(OnSliderInput(v))

DecreaseClick == Commit(OnDecreaseClick)

IncreaseClick == Commit(OnIncreaseClick)

ModeClick(m) == Commit(OnModeClick(m))

TapPad(outcome) ==
    /\ mode = "tap" => tapCount < MaxTaps
    /\ Commit(OnTapPad(outcome))

ResetTapsClick == Commit(OnResetTapsClick)

KeyDown(key, tag) == Commit(OnKeyDown(key, tag))

CircleClick(cls) ==
    /\ Len(timers) < MaxTimers
    /\ Commit(OnCircleClick(cls))

TimerFire ==
    /\ timers # << >>
    /\ Commit(OnTimeout)

Next ==
    \/ \E v \in SliderValues : SliderInput(v)
    \/ DecreaseClick
    \/ IncreaseClick
    \/ \E m \in Modes : ModeClick(m)
    \/ \E o \in AudioOutcomes : TapPad(o)
    \/ ResetTapsClick
    \/ \E key \in Keys, tag \in TagNames : KeyDown(key, tag)
    \/ \E cls \in ClassNames : CircleClick(cls)
    \/ TimerFire

Spec == Init /\ [][Next]_vars

----------------------------------------------------------------------------
(* The click-pulse animation: sector clicks with several resets pending,   *)
(* the re-renders of the stepper buttons, mode switches and timer firings. *)
(* A timer set with setTimeout fires once its 300 ms have passed, whatever *)
(* else happens.                                                           *)

PulseClick(cls) ==
    /\ Len(timers) < MaxPending
    /\ Commit(OnCircleClick(cls))

PulseNext ==
    \/ \E cls \in ClassNames : PulseClick(cls)
    \/ DecreaseClick
    \/ IncreaseClick
    \/ \E m \in Modes : ModeClick(m)
    \/ TimerFire

PulseSpec == Init /\ [][PulseNext]_vars /\ WF_vars(TimerFire)

----------------------------------------------------------------------------
(* Properties *)

\* the saturating steps the transition table states, written without the code's clamp
StepUp(n) == IF n < MaxN THEN n + 1 ELSE MaxN
StepDown(n) == IF n > MinN THEN n - 1 ELSE MinN

\* C1: in every reachable state N is an integer with 1 <= N <= 24.
C1_NInRange == N \in Int /\ MinN <= N /\ N <= MaxN

\* an out-of-range slider request was normalised: the slider shows more than 24, N is 24
C1_Witness == N = MaxN /\ inputValue > Num(MaxN)

\* C2: in every reachable state the slices group in the document carries the
\* click listener, and a click on a sector moves N one saturating step in the
\* direction of the mode: min(24, N+1) in Cut mode, max(1, N-1) in Merge mode.
C2_SectorClickStep ==
    /\ hasClickHandler
    /\ mode = "cut" => OnCircleClick("slice").N = StepUp(N)
    /\ mode = "merge" => OnCircleClick("slice").N = StepDown(N)

\* three Cut clicks from the initial N, each one re-rendering and pulsing
C2_Witness ==
    /\ N = DefaultN + 3 /\ mode = "cut" /\ tapCount = 0
    /\ pulse /\ timers = <<TRUE>> /\ inputValue = Num(N)

\* C3: a tap-pad activation in Tap mode adds exactly 1 to tapCount and sets N
\* to the incremented count clamped to [1, 24], whatever N was; tapCount
\* itself is not clamped.
C3_TapSetsN ==
    mode = "tap" =>
        \A o \in AudioOutcomes :
            /\ OnTapPad(o).tapCount = tapCount + 1
            /\ OnTapPad(o).N = (IF tapCount + 1 > MaxN THEN MaxN ELSE tapCount + 1)

\* the activation at tapCount = 24 happened: 25 taps counted, N is 24
C3_Witness ==
    /\ mode = "tap" /\ tapCount = MaxN + 1 /\ tapCountText = MaxN + 1
    /\ N = MaxN /\ inputValue = Num(MaxN)

\* C4: a mode switch to any of the three modes leaves N and tapCount unchanged.
C4_ModeSwitchFrame ==
    \A m \in Modes :
        /\ OnModeClick(m).N = N
        /\ OnModeClick(m).tapCount = tapCount
        /\ OnModeClick(m).mode = m

\* back in Cut mode with the N = 10 and tapCount = 3 that were set in Tap mode
C4_Witness ==
    /\ mode = "cut" /\ N = 10 /\ tapCount = 3
    /\ activeButtons = {"cut"} /\ tapPadDisplay = "none"

\* C5: reset-taps, in any mode and from any tapCount, sets tapCount to 0 and
\* leaves N and mode unchanged.
C5_ResetTapsFrame ==
    /\ OnResetTapsClick.tapCount = 0
    /\ OnResetTapsClick.N = N
    /\ OnResetTapsClick.mode = mode

\* taps were recorded (the audio context exists, N followed them to 5) and
\* then reset outside Tap mode: the count is 0, N still 5
C5_Witness ==
    /\ tapCount = 0 /\ tapCountText = 0 /\ audioContext # 0
    /\ N = 5 /\ mode = "merge"

\* the integer k with k <= v < k + 1 for v halves, by search
WholePart ==
    [v \in SliderValues |->
        CHOOSE k \in (MinN - SliderMargin - 1) .. (MaxN + SliderMargin + 1) :
            Num(k) <= v /\ v < Num(k + 1)]

\* n saturated to [1, 24]
Saturate(n) == IF n < MinN THEN MinN ELSE IF n > MaxN THEN MaxN ELSE n

\* C6 as stated: a slider request v sets N to clamp(round(v), 1, 24).
C6_RoundsThenClamps ==
    \A v \in SliderValues :
        OnSliderInput(v).N = Saturate(IF v - Num(WholePart[v]) >= 1
                                      THEN WholePart[v] + 1 ELSE WholePart[v])

\* C6, amended: a slider request v, in any mode, sets N to clamp(floor(v), 1, 24),
\* the steppers set N to clamp(N - 1, 1, 24) and clamp(N + 1, 1, 24), and a
\* request whose result is the current N changes nothing (the slider keeps
\* the value v it was given).
C6_FloorsThenClamps ==
    /\ \A v \in SliderValues : \A r \in {OnSliderInput(v)} :
           /\ r.N = Saturate(WholePart[v])
           /\ Saturate(WholePart[v]) = N => r = [St EXCEPT !.inputValue = v]
    /\ OnDecreaseClick.N = StepDown(N)
    /\ OnIncreaseClick.N = StepUp(N)
    /\ StepDown(N) = N => OnDecreaseClick = St
    /\ StepUp(N) = N => OnIncreaseClick = St

\* the slider stands at 6.5 and N is 6
C6_Witness == N = DefaultN /\ inputValue = Num(DefaultN) + 1

\* C7: the N the setter stores for a request v lies in [1, 24]; it is 1 for
\* v < 1, 24 for v >= 24, and otherwise the integer n with n <= v < n + 1
\* (a fractional v is floored); clamp(1) = 1, clamp(24) = 24, clamp(0) = 1,
\* clamp(25) = 24.
C7_ClampIsFloorSaturated ==
    /\ \A v \in SliderValues :
           \A n \in {OnSliderInput(v).N} :
               /\ n \in MinN .. MaxN
               /\ v < Num(MinN) => n = MinN
               /\ v >= Num(MaxN) => n = MaxN
               /\ (Num(MinN) <= v /\ v < Num(MaxN)) => (Num(n) <= v /\ v < Num(n + 1))
    /\ OnSliderInput(Num(MinN)).N = MinN
    /\ OnSliderInput(Num(MaxN)).N = MaxN
    /\ OnSliderInput(Num(MinN - 1)).N = MinN
    /\ OnSliderInput(Num(MaxN + 1)).N = MaxN

\* the slider stands below 1 and N is 1
C7_Witness == N = MinN /\ inputValue < Num(MinN)

\* C8: whatever the event path (slider, stepper, arrow key, sector click,
\* tap), when the clamped request equals the current N the N-setter changes
\* nothing: no re-render (sectors, listener, pulse marker and the groups the
\* pending timers hold are as before), same label, same slider value. What
\* does change is the rest of the handler: the slider shows the value given,
\* a click starts its pulse, a tap counts.
C8_NoRenderWhenUnchanged ==
    /\ \A v \in SliderValues : \A r \in {OnSliderInput(v)} :
           r.N = N => r = [St EXCEPT !.inputValue = v]
    /\ OnDecreaseClick.N = N => OnDecreaseClick = St
    /\ OnIncreaseClick.N = N => OnIncreaseClick = St
    /\ \A key \in Keys, tag \in TagNames :
           OnKeyDown(key, tag).N = N => OnKeyDown(key, tag) = St
    /\ \A cls \in ClassNames : \A r \in {OnCircleClick(cls)} :
           r.N = N =>
               \/ r = St
               \/ r = [St EXCEPT !.pulse = TRUE, !.timers = Append(timers, TRUE)]
    /\ \A o \in AudioOutcomes : \A r \in {OnTapPad(o)} :
           r.N = N =>
               /\ r.sectors = sectors
               /\ r.hasClickHandler = hasClickHandler
               /\ r.pulse = pulse
               /\ r.timers = timers
               /\ r.labelN = labelN
               /\ r.inputValue = inputValue

\* a slider request above 24 arrived at N = 24 while a pulse was running:
\* the slider kept the value, the pulse and its timer are untouched
C8_Witness ==
    /\ N = MaxN /\ inputValue = Num(MaxN + 1)
    /\ pulse /\ timers = <<TRUE>>

\* the results of the events that reach the N-setter without a sector click
SetterResults ==
    {OnSliderInput(v) : v \in SliderValues}
    \cup {OnDecreaseClick, OnIncreaseClick}
    \cup {OnKeyDown(key, tag) : key \in Keys, tag \in TagNames}
    \cup {OnTapPad(o) : o \in AudioOutcomes}

\* C9 as stated: no input that leaves N unchanged starts a click-pulse, a
\* sector click at the end of the range included.
C9_NoPulseWhenUnchanged ==
    \A r \in SetterResults \cup {OnCircleClick("slice")} :
        r.N = N => (r.pulse = pulse /\ r.timers = timers)

\* C9, amended: the N-setter itself never touches the animation: a slider,
\* stepper, arrow-key or tap input that leaves N unchanged leaves the pulse
\* marker and the pending timers as they were. A sector click in Cut or
\* Merge mode always starts a click-pulse on the slices group in the
\* document and queues its reset, also when N stays unchanged (Cut at
\* N = 24, Merge at N = 1).
C9_PulseOnEveryClick ==
    /\ \A r \in SetterResults : r.N = N => (r.pulse = pulse /\ r.timers = timers)
    /\ mode # "tap" =>
           \A r \in {OnCircleClick("slice")} :
               /\ r.pulse
               /\ Len(r.timers) = Len(timers) + 1
               /\ r.timers[Len(r.timers)]

\* a Merge click at N = 1 that did not re-render (the slider still shows the
\* value below 1 it was given) and started its pulse
C9_Witness ==
    /\ N = MinN /\ mode = "merge" /\ inputValue < Num(MinN)
    /\ pulse /\ timers = <<TRUE>>

\* C10: a keydown whose target is no input field sets N to clamp(N + 1, 1, 24)
\* for ArrowUp and ArrowRight and to clamp(N - 1, 1, 24) for ArrowDown and
\* ArrowLeft, in every mode, and leaves mode and tapCount alone; a keydown
\* whose target is an input field changes nothing.
C10_ArrowKeys ==
    \A key \in Keys, tag \in TagNames :
        \A r \in {OnKeyDown(key, tag)} :
            /\ (tag # "INPUT" /\ key \in {"ArrowUp", "ArrowRight"}) => r.N = StepUp(N)
            /\ (tag # "INPUT" /\ key \in {"ArrowDown", "ArrowLeft"}) => r.N = StepDown(N)
            /\ r.mode = mode
            /\ r.tapCount = tapCount
            /\ tag = "INPUT" => r = St

\* in Tap mode after 3 taps, N moved on from 3 to 4 without a tap
C10_Witness ==
    /\ mode = "tap" /\ tapCount = 3 /\ tapCountText = 3
    /\ N = 4 /\ labelN = 4 /\ inputValue = Num(4)

\* C11: a click on a sector in Tap mode is ignored: the handler leaves N, mode
\* and tapCount as they were, does not re-render (the slices, the listener
\* and the pending timers stay those of the group in the document) and
\* starts no click-pulse; nothing else changes either.
C11_TapModeIgnoresSectorClick ==
    mode = "tap" =>
        \A r \in {OnCircleClick("slice")} :
            /\ r.N = N /\ r.mode = mode /\ r.tapCount = tapCount
            /\ r.sectors = sectors /\ r.hasClickHandler = hasClickHandler
            /\ r.pulse = pulse /\ r.timers = timers
            /\ r = St

\* Tap mode after two taps, the listener attached, no pulse pending: a
\* sector click is delivered to handleCircleClick
C11_Witness ==
    /\ mode = "tap" /\ tapCount = 2 /\ N = 2 /\ hasClickHandler
    /\ ~pulse /\ timers = << >> /\ audioContext = 1

\* C12: in Tap mode a tap-pad activation whose audio code fails (no
\* AudioContext to construct, or an exception of a later step) runs to its
\* end like one whose audio succeeds: tapCount is incremented, N, the label,
\* the slider, the slices and the tap display are those of the successful
\* tap; the two results differ in the audio context alone.
C12_AudioFailureHarmless ==
    mode = "tap" =>
        \A ok \in {OnTapPad("ok")} :
            \A o \in AudioOutcomes \ {"ok"} :
                \A r \in {OnTapPad(o)} :
                    /\ r.tapCount = tapCount + 1
                    /\ r.N = ok.N
                    /\ r.tapCountText = r.tapCount
                    /\ [r EXCEPT !.audioContext = ok.audioContext,
                                 !.ctxCreated = ok.ctxCreated] = ok

\* four taps without any AudioContext: each one counted and shown
C12_Witness ==
    /\ mode = "tap" /\ tapCount = 4 /\ tapCountText = 4 /\ N = 4 /\ labelN = 4
    /\ audioContext = 0 /\ ctxCreated = 0

\* C13: when N = 1 the render holds exactly one sector, the arc of its path
\* is the large one in the increasing-angle direction, and no reader of the
\* path finds the end point of the arc equal to its start point (an arc
\* between equal points is zero-length: it is not drawn as a circle).
C13_SingleSectorFullCircle ==
    N = 1 =>
        /\ Len(sectors) = 1
        /\ \A k \in 1 .. Len(sectors) :
               /\ sectors[k].d.largeArc = 1
               /\ sectors[k].d.sweep = 1
               /\ \A same \in ReadsEndpointsEqual(sectors[k].d) : ~same

\* the render of N = 1: one sector whose arc runs from the top of the circle,
\* a full turn, to the top of the circle
C13_Witness ==
    /\ N = 1 /\ Len(sectors) = 1
    /\ sectors[1].d.start = sectors[1].d.end /\ sectors[1].d.largeArc = 1

\* C14: in every reachable state the slices group holds exactly N sector
\* paths, the k-th of them tagged with the index k - 1, so that each of
\* 0 .. N-1 is the tag of exactly one path; and each path is the one
\* createSectorPath gives for its index among N slices, so none is left from
\* a render of another N.
C14_RenderHoldsNSectors ==
    /\ Len(sectors) = N
    /\ \A k \in 1 .. Len(sectors) :
           /\ sectors[k].index = k - 1
           /\ sectors[k].d = CreateSectorPath(4 * (k - 1) - N, 4 * k - N, 2 * N)
    /\ \A i \in 0 .. N - 1 :
           Cardinality({k \in 1 .. Len(sectors) : sectors[k].index = i}) = 1

\* three Merge clicks from the initial six slices: three re-renders, each one
\* with fewer slices than the one before
C14_Witness ==
    /\ mode = "merge" /\ N = DefaultN - 3 /\ Len(sectors) = DefaultN - 3
    /\ sectors[DefaultN - 3].index = DefaultN - 4
    /\ pulse /\ timers = <<TRUE>>

\* C15: the path generator sets the large-arc flag to 1 exactly when
\* endAngle - startAngle > pi and to 0 otherwise, and the sweep flag always
\* to 1 (increasing angle): checked for the spans of 1 .. N slices from the
\* top of the circle, slices of 1/N turn, so below, at and above pi. In the
\* paths of the render, the slices being equal, the large-arc flag is 1
\* exactly when N = 1 (0 for N = 2, each slice spanning pi) and the sweep
\* flag is 1.
C15_ArcFlags ==
    /\ \A j \in 1 .. N :
           \A d \in {CreateSectorPath(0 - N, 4 * j - N, 2 * N)} :
               /\ d.largeArc = (IF 4 * j > 2 * N THEN 1 ELSE 0)
               /\ d.sweep = 1
    /\ \A k \in 1 .. Len(sectors) :
           /\ sectors[k].d.largeArc = (IF N = 1 THEN 1 ELSE 0)
           /\ sectors[k].d.sweep = 1

\* the two half-circle slices of N = 2, neither one a large arc
C15_Witness ==
    /\ N = 2 /\ Len(sectors) = 2
    /\ sectors[1].d.largeArc = 0 /\ sectors[2].d.largeArc = 0
    /\ sectors[1].d.end = sectors[2].d.start

\* C16 as stated: at most one audio context is ever constructed, and the
\* first tap-pad activation in Tap mode constructs it: after any activation
\* in Tap mode there is a context.
C16_FirstTapCreatesHandle ==
    /\ ctxCreated <= 1
    /\ mode = "tap" => \A o \in AudioOutcomes : OnTapPad(o).audioContext # 0

\* C16, amended: at most one audio context is ever constructed, and there is
\* one exactly if one has been constructed. Only a tap-pad activation in Tap
\* mode constructs one. While there is none, an activation in Tap mode
\* constructs it unless the constructor is missing or throws, and then
\* leaves none, so that the next activation tries again; once there is one,
\* every activation keeps it and constructs no other.
C16_AcquireOnce ==
    /\ [](/\ ctxCreated \in {0, 1}
          /\ audioContext = ctxCreated
          /\ mode = "tap" =>
                 \A o \in AudioOutcomes :
                     \A r \in {OnTapPad(o)} :
                         /\ r.audioContext = r.ctxCreated
                         /\ r.ctxCreated = (IF audioContext = 0 /\ o # "noApi"
                                            THEN 1 ELSE ctxCreated))
    /\ [][ctxCreated' # ctxCreated \/ audioContext' # audioContext =>
             mode = "tap" /\ tapCount' = tapCount + 1]_vars

\* five taps, the context constructed by one of them and kept since
C16_Witness ==
    /\ mode = "tap" /\ tapCount = 5 /\ N = 5
    /\ audioContext = 1 /\ ctxCreated = 1

\* C17: a tap-pad activation in Cut or Merge mode does nothing: tapCount, N
\* and mode stay as they are, playTapSound is not called (no audio context
\* is constructed where there was none) and nothing else changes, whatever
\* the audio code would have done.
C17_TapPadOutsideTapMode ==
    mode # "tap" =>
        \A o \in AudioOutcomes :
            \A r \in {OnTapPad(o)} :
                /\ r.tapCount = tapCount /\ r.N = N /\ r.mode = mode
                /\ r.audioContext = audioContext /\ r.ctxCreated = ctxCreated
                /\ r = St

\* Cut mode with two taps counted earlier and no audio context so far: a
\* tone request would construct one
C17_Witness ==
    /\ mode = "cut" /\ tapCount = 2 /\ N = 2 /\ tapPadDisplay = "none"
    /\ audioContext = 0

\* the results of the slider, stepper, arrow-key and sector-click handlers
NonTapResults ==
    {OnSliderInput(v) : v \in SliderValues}
    \cup {OnDecreaseClick, OnIncreaseClick}
    \cup {OnKeyDown(key, tag) : key \in Keys, tag \in TagNames}
    \cup {OnCircleClick(cls) : cls \in ClassNames}

\* C18: tapCount is a non-negative integer and mode one of the three modes;
\* the slider, stepper, arrow-key and sector-click handlers leave both as
\* they are. Over every step, tapCount changes only by +1 through a tap-pad
\* activation in Tap mode or to 0 through reset-taps, and mode changes only
\* through a mode button, to the mode of that button.
C18_TapCountAndModeFrame ==
    /\ [](/\ tapCount \in Nat
          /\ mode \in Modes
          /\ \A r \in NonTapResults : r.tapCount = tapCount /\ r.mode = mode)
    /\ [][/\ tapCount' # tapCount =>
                \/ /\ mode = "tap" /\ tapCount' = tapCount + 1
                   /\ \E o \in AudioOutcomes : TapPad(o)
                \/ tapCount' = 0 /\ ResetTapsClick
          /\ mode' # mode =>
                \E m \in Modes : mode' = m /\ ModeClick(m)]_vars

\* three taps, a switch to Merge mode, then the slider moved to 10.5: the
\* count and the mode are still there
C18_Witness ==
    /\ mode = "merge" /\ tapCount = 3 /\ tapCountText = 3
    /\ N = 10 /\ inputValue = Num(10) + 1

\* the mode class of #circle-svg that stands for mode m
ModeClass(m) ==
    IF m = "cut" THEN "cut-mode" ELSE IF m = "merge" THEN "merge-mode" ELSE "tap-mode"

\* arguments of updateMode that are none of the three modes
OtherModes == {"", "split", "Cut"}

\* C19: in every reachable state mode is one of cut, merge and tap, the
\* button of the current mode is the one button marked active, the SVG
\* carries the mode class of the current mode and no other mode class, and
\* the tap pad is shown exactly in Tap mode; a mode switch to the current
\* mode, or to a value that is none of the three modes, changes nothing.
C19_ModeUIAgrees ==
    /\ mode \in Modes
    /\ activeButtons = {mode}
    /\ svgClasses = {ModeClass(mode)}
    /\ tapPadDisplay = (IF mode = "tap" THEN "block" ELSE "none")
    /\ OnModeClick(mode) = St
    /\ \A m \in OtherModes : UpdateMode(St, m) = St

\* Tap mode entered from the initial state: the tap button active, the tap
\* pad shown
C19_Witness ==
    /\ mode = "tap" /\ activeButtons = {"tap"} /\ svgClasses = {"tap-mode"}
    /\ tapPadDisplay = "block" /\ tapCount = 0 /\ N = DefaultN

\* C20: a sector click that starts a pulse queues exactly one reset, for the
\* group in the document. The marker is on the group in the document only
\* while a reset for that group is pending, so when no reset is pending the
\* group carries no marker; and unless sector clicks keep coming for ever,
\* from some time on no reset is pending and the group in the document
\* carries no marker, whatever re-renders and mode switches came in between.
C20_PulseSelfTerminating ==
    /\ [](/\ pulse => \E i \in 1 .. Len(timers) : timers[i]
          /\ timers = << >> => ~pulse
          /\ \A r \in {OnCircleClick("slice")} :
                 IF hasClickHandler /\ mode # "tap"
                 THEN /\ r.pulse
                      /\ Len(r.timers) = Len(timers) + 1
                      /\ r.timers[Len(r.timers)]
                 ELSE r.pulse = pulse /\ r.timers = timers)
    /\ \/ []<><<\E cls \in ClassNames : PulseClick(cls)>>_vars
       \/ <>[](~pulse /\ timers = << >>)

\* at N = 24 in Cut mode: the pulse of a click that re-rendered, its reset
\* overtaken by the next click's re-render, and two clicks on the last group
C20_Witness ==
    /\ mode = "cut" /\ N = MaxN /\ pulse
    /\ timers = <<FALSE, TRUE, TRUE>>

====
